---- MODULE Spec2Model ----
(***************************************************************************)
(* Model of the ristretto255 backend: the arbitrary-length byte string to  *)
(* scalar reduction (src/src/lib.rs), the scalar encodings and inversion,  *)
(* and the non-hardened HD derivation step (src/src/hd_wallet.rs).         *)
(*                                                                         *)
(* Byte strings are sequences over 0..Radix-1 and keep the widths of the   *)
(* code (32, 64).  The scalar field is the field of integers modulo Order. *)
(* The group order of ristretto255 (2^252 + 27742...493) does not fit the  *)
(* model checker's integers, so Order is a prime of the same shape,        *)
(* 2^12 + 3: it is odd, it is slightly above a power of two and it is far  *)
(* below the capacity of a 32-byte array, so arrays that encode an integer *)
(* >= Order exist and the wide reduction really reduces.  A point of the   *)
(* (cyclic, prime-order) group is represented by its discrete logarithm    *)
(* with respect to the generator.                                          *)
(***************************************************************************)
EXTENDS Integers, Sequences, FiniteSets, TLC

Radix == 256
Order == 4099

\* Longest input of the reduction that is explored.
MaxLen == 129

Scalars == 0 .. (Order - 1)
Bytes == 0 .. (Radix - 1)

----------------------------------------------------------------------------
(* Slices and arrays *)

Repeat(v, n) == [ix \in 1 .. n |-> v]

Reverse(s) == [ix \in 1 .. Len(s) |-> s[Len(s) + 1 - ix]]

\* s[lo..hi) with 0-based bounds as in Rust; the caller keeps lo <= hi <= Len(s).
Slice(s, lo, hi) == [ix \in 1 .. (hi - lo) |-> s[lo + ix]]

\* <[u8; N]>::try_from(&[u8]): Some(array) iff the slice has exactly N bytes.
TryInto(s, n) ==
    IF Len(s) = n THEN [some |-> TRUE, val |-> s] ELSE [some |-> FALSE, val |-> <<>>]

\* dst[lo..hi].copy_from_slice(src), 0-based half-open range.  Panics when the
\* range is out of order or out of bounds, or when the lengths differ.
CopyFromSlice(dst, lo, hi, src) ==
    IF lo < 0 \/ lo > hi \/ hi > Len(dst) \/ (hi - lo) # Len(src)
    THEN [some |-> FALSE, val |-> dst]
    ELSE [some |-> TRUE,
          val |-> [ix \in 1 .. Len(dst) |->
                     IF ix > lo /\ ix <= hi THEN src[ix - lo] ELSE dst[ix]]]

----------------------------------------------------------------------------
(* Scalar field: curve25519_dalek::Scalar, as used through the wrappers *)

ScalarAdd(a, b) == (a + b) % Order

ScalarMul(a, b) == (a * b) % Order

ScalarZERO == 0

ScalarONE == 1

ScalarDefault == ScalarZERO

\* Little-endian integer of bytes[i..] reduced modulo the order.
RECURSIVE LeModFrom(_, _)
LeModFrom(bytes, i) ==
    IF i > Len(bytes) THEN 0
    ELSE (LeModFrom(bytes, i + 1) * Radix + bytes[i]) % Order

\* curve25519_dalek::Scalar::from_bytes_mod_order([u8; 32])
FromBytesModOrder(bytes) == LeModFrom(bytes, 1)

\* curve25519_dalek::Scalar::from_bytes_mod_order_wide(&[u8; 64])
FromBytesModOrderWide(bytes) == LeModFrom(bytes, 1)

\* Reduce<32>
Reduce32FromBeArray(bytes) == FromBytesModOrder(Reverse(bytes))

Reduce32FromLeArray(bytes) == FromBytesModOrder(bytes)

\* Variant: the big-endian array is not reversed.
Reduce64FromBeArray_NoReverse(bytes) == FromBytesModOrderWide(bytes)

\* Reduce<64>
Reduce64FromBeArray(bytes) == FromBytesModOrderWide(Reverse(bytes))

Reduce64FromLeArray(bytes) == FromBytesModOrderWide(bytes)

----------------------------------------------------------------------------
(* The reduction of a byte string of any length *)

\* Outcome of one call: the scalar returned, or a panic; with the operations
\* the Horner fold of the outermost call performed and the values it consumed.
Returned(v) == [panic |-> FALSE, val |-> v, muls |-> 0, adds |-> 0, items |-> <<>>]

Panic == [panic |-> TRUE, val |-> ScalarDefault, muls |-> 0, adds |-> 0, items |-> <<>>]

\* slice::chunks_exact(size): chunks from the front, in iteration order, and
\* the bytes left over at the back.
ChunksExact(bytes, size) ==
    LET n == Len(bytes) \div size IN
    [chunks |-> [k \in 1 .. n |-> Slice(bytes, (k - 1) * size, k * size)],
     remainder |-> Slice(bytes, n * size, Len(bytes))]

\* Variant: the chunks are cut from the front, as chunks_exact does.
RChunksExact_FromFront(bytes, size) ==
    LET n == Len(bytes) \div size IN
    [chunks |-> [k \in 1 .. n |-> Slice(bytes, (k - 1) * size, k * size)],
     remainder |-> Slice(bytes, n * size, Len(bytes))]

\* slice::rchunks_exact(size): chunks from the back, in iteration order, and
\* the bytes left over at the front.
RChunksExact(bytes, size) ==
    LET len == Len(bytes)
        n == len \div size IN
    [chunks |-> [k \in 1 .. n |-> Slice(bytes, len - k * size, len - (k - 1) * size)],
     remainder |-> Slice(bytes, 0, len - n * size)]

\* Variant: the chunks are left in iteration order.
Rev_Identity(it) == it

\* Iterator::rev
Rev(it) == Reverse(it)

\* Variant: the remainder is chained after the chunks.
Chain_RemainderLast(remainder, chunks) ==
    IF remainder.some THEN chunks \o <<remainder.val>> ELSE chunks

\* Option::into_iter().chain(chunks)
Chain(remainder, chunks) ==
    IF remainder.some THEN <<remainder.val>> \o chunks ELSE chunks

\* The closure |acc, int| S::add(&S::mul(&acc, &two_to_512), &int)
HornerStep(acc, int, two_to_512) == ScalarAdd(ScalarMul(acc, two_to_512), int)

\* Iterator::fold from position i on, counting the calls of the closure.
RECURSIVE IterFold(_, _, _, _)
IterFold(acc, it, i, two_to_512) ==
    IF i > Len(it) THEN acc
    ELSE IterFold([val |-> HornerStep(acc.val, it[i], two_to_512),
                   muls |-> acc.muls + 1,
                   adds |-> acc.adds + 1],
                  it, i + 1, two_to_512)

\* Variant: Iterator::fold seeded with the default scalar, over every item.
IterReduce_FoldFromDefault(it, two_to_512) ==
    IF Len(it) = 0 THEN [some |-> FALSE, val |-> [val |-> ScalarDefault, muls |-> 0, adds |-> 0]]
    ELSE [some |-> TRUE,
          val |-> IterFold([val |-> ScalarDefault, muls |-> 0, adds |-> 0], it, 1, two_to_512)]

\* Iterator::reduce: None on an empty iterator, else the fold seeded with
\* the first item.
IterReduce(it, two_to_512) ==
    IF Len(it) = 0 THEN [some |-> FALSE, val |-> [val |-> ScalarDefault, muls |-> 0, adds |-> 0]]
    ELSE [some |-> TRUE,
          val |-> IterFold([val |-> it[1], muls |-> 0, adds |-> 0], it, 2, two_to_512)]

\* Option::unwrap_or_default on the result of the fold
UnwrapOrDefault(r, it) ==
    IF r.some
    THEN [panic |-> FALSE, val |-> r.val.val, muls |-> r.val.muls,
          adds |-> r.val.adds, items |-> it]
    ELSE [panic |-> FALSE, val |-> ScalarDefault, muls |-> 0, adds |-> 0, items |-> it]

\* let mut padded = [0u8; N]; padded[..len].copy_from_slice(bytes)
PadLe32(bytes) == CopyFromSlice(Repeat(0, 32), 0, Len(bytes), bytes)

PadLe64(bytes) == CopyFromSlice(Repeat(0, 64), 0, Len(bytes), bytes)

\* Variant: the destination range starts one byte early.
PadBe32_OffByOne(bytes) == CopyFromSlice(Repeat(0, 32), 31 - Len(bytes), 32, bytes)

\* let mut padded = [0u8; N]; padded[N - len..].copy_from_slice(bytes)
PadBe32(bytes) == CopyFromSlice(Repeat(0, 32), 32 - Len(bytes), 32, bytes)

PadBe64(bytes) == CopyFromSlice(Repeat(0, 64), 64 - Len(bytes), 64, bytes)

RECURSIVE scalar_from_le_bytes_mod_order_reducing_32_64(_, _)
scalar_from_le_bytes_mod_order_reducing_32_64(bytes, one) ==
    LET len == Len(bytes) IN
    IF len <= 31 THEN
        LET padded == PadLe32(bytes) IN
        IF padded.some THEN Returned(Reduce32FromLeArray(padded.val)) ELSE Panic
    ELSE IF len = 32 THEN
        LET arr == TryInto(bytes, 32) IN
        IF arr.some THEN Returned(Reduce32FromLeArray(arr.val)) ELSE Panic
    ELSE IF len >= 33 /\ len <= 63 THEN
        LET padded == PadLe64(bytes) IN
        IF padded.some THEN Returned(Reduce64FromLeArray(padded.val)) ELSE Panic
    ELSE IF len = 64 THEN
        LET arr == TryInto(bytes, 64) IN
        IF arr.some THEN Returned(Reduce64FromLeArray(arr.val)) ELSE Panic
    ELSE
        LET two_to_512 == ScalarAdd(Reduce64FromLeArray(Repeat(Radix - 1, 64)), one)
            chunks == ChunksExact(bytes, 64)
            rec == IF Len(chunks.remainder) # 0
                   THEN scalar_from_le_bytes_mod_order_reducing_32_64(chunks.remainder, one)
                   ELSE Panic
            remainder == [some |-> Len(chunks.remainder) # 0, val |-> rec.val]
            arrs == [k \in 1 .. Len(chunks.chunks) |-> TryInto(Rev(chunks.chunks)[k], 64)]
            mapped == [k \in 1 .. Len(arrs) |-> Reduce64FromLeArray(arrs[k].val)]
            it == Chain(remainder, mapped)
        IN  IF (remainder.some /\ rec.panic) \/ (\E k \in 1 .. Len(arrs) : ~arrs[k].some)
            THEN Panic
            ELSE UnwrapOrDefault(IterReduce(it, two_to_512), it)

RECURSIVE scalar_from_be_bytes_mod_order_reducing_32_64(_, _)
scalar_from_be_bytes_mod_order_reducing_32_64(bytes, one) ==
    LET len == Len(bytes) IN
    IF len <= 31 THEN
        LET padded == PadBe32(bytes) IN
        IF padded.some THEN Returned(Reduce32FromBeArray(padded.val)) ELSE Panic
    ELSE IF len = 32 THEN
        LET arr == TryInto(bytes, 32) IN
        IF arr.some THEN Returned(Reduce32FromBeArray(arr.val)) ELSE Panic
    ELSE IF len >= 33 /\ len <= 63 THEN
        LET padded == PadBe64(bytes) IN
        IF padded.some THEN Returned(Reduce64FromBeArray(padded.val)) ELSE Panic
    ELSE IF len = 64 THEN
        LET arr == TryInto(bytes, 64) IN
        IF arr.some THEN Returned(Reduce64FromBeArray(arr.val)) ELSE Panic
    ELSE
        LET two_to_512 == ScalarAdd(Reduce64FromBeArray(Repeat(Radix - 1, 64)), one)
            chunks == RChunksExact(bytes, 64)
            rec == IF Len(chunks.remainder) # 0
                   THEN scalar_from_be_bytes_mod_order_reducing_32_64(chunks.remainder, one)
                   ELSE Panic
            remainder == [some |-> Len(chunks.remainder) # 0, val |-> rec.val]
            arrs == [k \in 1 .. Len(chunks.chunks) |-> TryInto(Rev(chunks.chunks)[k], 64)]
            mapped == [k \in 1 .. Len(arrs) |-> Reduce64FromBeArray(arrs[k].val)]
            it == Chain(remainder, mapped)
        IN  IF (remainder.some /\ rec.panic) \/ (\E k \in 1 .. Len(arrs) : ~arrs[k].some)
            THEN Panic
            ELSE UnwrapOrDefault(IterReduce(it, two_to_512), it)

\* IntegerEncoding::from_be_bytes_mod_order / from_le_bytes_mod_order
from_be_bytes_mod_order(bytes) ==
    scalar_from_be_bytes_mod_order_reducing_32_64(bytes, ScalarONE)

from_le_bytes_mod_order(bytes) ==
    scalar_from_le_bytes_mod_order_reducing_32_64(bytes, ScalarONE)

----------------------------------------------------------------------------
(* Scalar encodings, exact decoding, inversion *)

\* The n least significant base-Radix digits of v, least significant first
\* (v is below 2^31, so the digits above the fourth are zero).
LeDigits(v, n) ==
    [ix \in 1 .. n |-> IF ix > 4 THEN 0 ELSE (v \div (Radix ^ (ix - 1))) % Radix]

\* curve25519_dalek::Scalar::to_bytes: the canonical 32 little-endian bytes.
ScalarToBytes(x) == LeDigits(x, 32)

\* curve25519_dalek::Scalar::from_canonical_bytes: the candidate is accepted
\* iff its top bit is clear and it equals its own reduction.
FromCanonicalBytes(bytes) ==
    LET reduced == FromBytesModOrder(bytes)
        high_bit_unset == (bytes[32] \div 128) = 0
        is_canonical == ScalarToBytes(reduced) = bytes
    IN  IF high_bit_unset /\ is_canonical
        THEN [some |-> TRUE, val |-> reduced]
        ELSE [some |-> FALSE, val |-> ScalarDefault]

to_le_bytes(x) == ScalarToBytes(x)

to_be_bytes(x) == Reverse(to_le_bytes(x))

from_le_bytes_exact(bytes) == FromCanonicalBytes(bytes)

\* Variant: the big-endian array is not reversed.
from_be_bytes_exact_NoReverse(bytes) == from_le_bytes_exact(bytes)

from_be_bytes_exact(bytes) == from_le_bytes_exact(Reverse(bytes))

\* b^e in the scalar field, by squaring.
RECURSIVE PowMod(_, _)
PowMod(b, e) ==
    IF e = 0 THEN 1 % Order
    ELSE IF e % 2 = 0 THEN PowMod((b * b) % Order, e \div 2)
    ELSE (b * PowMod(b, e - 1)) % Order

\* curve25519_dalek::Scalar::invert: x^(order - 2); zero for x = 0.
ScalarInvert(x) == PowMod(x, Order - 2)

\* Variant: the comparison is against one.
is_zero_AgainstOne(x) == x = ScalarONE

\* Zero::is_zero
is_zero(x) == x = ScalarZERO

\* Invertible::invert: CtOption::new(inverse, !is_zero(x))
invert(x) == [some |-> ~is_zero(x), val |-> ScalarInvert(x)]

----------------------------------------------------------------------------
(* Points, and the non-hardened derivation step *)

\* Additive::add on points
PointAdd(a, b) == (a + b) % Order

\* Point::generator()
Generator == 1 % Order

\* Multiplicative<Point> for Scalar
PointMul(x, p) == (x * p) % Order

\* CompressedEncoding::to_bytes_compressed: an injective 32-byte encoding that
\* sends the identity to the all-zero string.
to_bytes_compressed(p) == LeDigits((5 * p) % Order, 32)

\* u32::to_be_bytes of a child index
IndexToBeBytes(i) == Reverse(LeDigits(i, 4))

\* What the keyed hash absorbs from bytes[lo..hi]: every byte counts, with a
\* weight that depends on its position.
RECURSIVE Absorb(_, _, _)
Absorb(bytes, lo, hi) ==
    IF lo > hi THEN 0
    ELSE IF lo = hi THEN (bytes[lo] + 1) * (2 * lo + 1)
    ELSE Absorb(bytes, lo, (lo + hi) \div 2) + Absorb(bytes, (lo + hi) \div 2 + 1, hi)

\* HmacSha512::new_from_slice(key).chain_update(..).finalize(): a 64-byte
\* digest that depends on the key and on every byte and the length of the
\* message.
HmacSha512(key, msg) ==
    LET h == (Absorb(key, 1, Len(key)) * 31 + Absorb(msg, 1, Len(msg))) % 65521 IN
    [j \in 1 .. 64 |-> ((h + j) * ((h % 251) + j * j + 7)) % Radix]

\* Variant: the 0x00 byte after the public key is left out.
DeriveMessage_NoZeroByte(parent_public_key, child_index) ==
    to_bytes_compressed(parent_public_key.public_key) \o IndexToBeBytes(child_index)

\* The message the derivation feeds to the HMAC.
DeriveMessage(parent_public_key, child_index) ==
    to_bytes_compressed(parent_public_key.public_key) \o <<0>> \o IndexToBeBytes(child_index)

\* split_into_two_halves
split_into_two_halves(i) == <<Slice(i, 0, 32), Slice(i, 32, 64)>>

\* Variant: the child point is generator * shift, without the parent point.
calculate_shift_DropsParent(parent_public_key, i) ==
    LET i_left == split_into_two_halves(i)[1]
        i_right == split_into_two_halves(i)[2]
        shift == from_be_bytes_mod_order(i_left).val
        child_pk == PointMul(shift, Generator)
    IN  [shift |-> shift,
         child_public_key |-> [public_key |-> child_pk, chain_code |-> i_right]]

\* HdWallet::calculate_shift
calculate_shift(parent_public_key, i) ==
    LET i_left == split_into_two_halves(i)[1]
        i_right == split_into_two_halves(i)[2]
        shift == from_be_bytes_mod_order(i_left).val
        child_pk == PointAdd(parent_public_key.public_key, PointMul(shift, Generator))
    IN  [shift |-> shift,
         child_public_key |-> [public_key |-> child_pk, chain_code |-> i_right]]

\* HdWallet::derive_public_shift
derive_public_shift(parent_public_key, child_index) ==
    LET hmac_i == HmacSha512(parent_public_key.chain_code,
                             DeriveMessage(parent_public_key, child_index))
    IN  calculate_shift(parent_public_key, hmac_i)

----------------------------------------------------------------------------
(* State *)

VARIABLES
    input,      \* reduction: the byte string handed to the reduction
    pc,         \* reduction: "start", then the entry point that ran ("be", "le")
    out,        \* reduction: outcome of the call
    scalar,     \* scalars: the scalar operated on (an Option)
    array,      \* scalars: the 32-byte array operated on or produced
    result,     \* scalars: the Option returned by a decoding or by invert
    spc,        \* scalars: which operation has run
    root,       \* derivation: the root extended public key
    cur,        \* derivation: the extended public key the next hop starts from
    hops,       \* derivation: number of hops made
    parent,     \* derivation: parent of the most recent hop
    index,      \* derivation: child index of the most recent hop
    derived,    \* derivation: DerivedShift returned by the most recent hop
    shifts      \* derivation: the shift scalars returned so far

redVars == <<input, pc, out>>
scVars == <<scalar, array, result, spc>>
hdVars == <<root, cur, hops, parent, index, derived, shifts>>
vars == <<input, pc, out, scalar, array, result, spc,
          root, cur, hops, parent, index, derived, shifts>>

None == [some |-> FALSE, val |-> ScalarDefault]

Some(v) == [some |-> TRUE, val |-> v]

NoKey == [public_key |-> 0, chain_code |-> <<>>]

RedIdle == input = <<>> /\ pc = "idle" /\ out = Returned(ScalarDefault)

ScIdle == scalar = None /\ array = <<>> /\ result = None /\ spc = "idle"

HdIdle ==
    /\ root = NoKey /\ cur = NoKey /\ parent = NoKey
    /\ hops = 0 /\ index = 0 /\ shifts = <<>>
    /\ derived = [shift |-> ScalarDefault, child_public_key |-> NoKey]

----------------------------------------------------------------------------
(* Reduction machine: one input, one call of either entry point *)

FillBytes == {0, Radix - 1}
MarkBytes == {1, 128}

\* A string of len bytes, all fill, except byte pos (if any) which is mark.
MkBytes(len, fill, pos, mark) == [i \in 1 .. len |-> IF i = pos THEN mark ELSE fill]

\* A string of len bytes that differ from position to position.
Ramp(len, stride) == [i \in 1 .. len |-> (stride * i + 3) % Radix]

Inputs ==
    {MkBytes(len, fill, pos, mark) :
        len \in 0 .. MaxLen, fill \in FillBytes, pos \in 0 .. MaxLen, mark \in MarkBytes}
    \cup {Ramp(len, stride) : len \in 0 .. MaxLen, stride \in {1, 37}}

Init ==
    /\ input \in Inputs
    /\ pc = "start"
    /\ out = Returned(ScalarDefault)
    /\ ScIdle
    /\ HdIdle

CallBe ==
    /\ pc = "start"
    /\ out' = from_be_bytes_mod_order(input)
    /\ pc' = "be"
    /\ UNCHANGED <<input, scVars, hdVars>>

CallLe ==
    /\ pc = "start"
    /\ out' = from_le_bytes_mod_order(input)
    /\ pc' = "le"
    /\ UNCHANGED <<input, scVars, hdVars>>

Next == CallBe \/ CallLe

Spec == Init /\ [][Next]_vars

----------------------------------------------------------------------------
(* Scalar machine: encode, decode exactly, invert *)

OrderBytesLe == LeDigits(Order, 32)

\* 32-byte arrays around the encoding of the order, with at most one further
\* non-zero byte above the two low ones.
Arrays32 ==
    {[i \in 1 .. 32 |-> IF i = 1 THEN b1 ELSE IF i = 2 THEN b2
                        ELSE IF i = pos THEN hi ELSE 0] :
        b1 \in {0, 2, 3, 4, Radix - 1},
        b2 \in {0, 15, 16, 17, Radix - 1},
        pos \in 2 .. 32,
        hi \in {1, 128}}

InitScalar ==
    /\ \/ /\ scalar \in {Some(x) : x \in Scalars}
          /\ array = <<>>
          /\ spc = "scalar"
       \/ /\ scalar = None
          /\ array \in Arrays32
          /\ spc = "array"
    /\ result = None
    /\ RedIdle
    /\ HdIdle

ToLeBytes ==
    /\ spc = "scalar"
    /\ array' = to_le_bytes(scalar.val)
    /\ spc' = "le_bytes"
    /\ UNCHANGED <<scalar, result, redVars, hdVars>>

ToBeBytes ==
    /\ spc = "scalar"
    /\ array' = to_be_bytes(scalar.val)
    /\ spc' = "be_bytes"
    /\ UNCHANGED <<scalar, result, redVars, hdVars>>

FromLeBytesExact ==
    /\ spc \in {"array", "le_bytes"}
    /\ result' = from_le_bytes_exact(array)
    /\ spc' = IF spc = "array" THEN "le_decoded" ELSE "le_roundtrip"
    /\ UNCHANGED <<scalar, array, redVars, hdVars>>

FromBeBytesExact ==
    /\ spc \in {"array", "be_bytes"}
    /\ result' = from_be_bytes_exact(array)
    /\ spc' = IF spc = "array" THEN "be_decoded" ELSE "be_roundtrip"
    /\ UNCHANGED <<scalar, array, redVars, hdVars>>

Invert ==
    /\ spc = "scalar"
    /\ result' = invert(scalar.val)
    /\ spc' = "inverted"
    /\ UNCHANGED <<scalar, array, redVars, hdVars>>

NextScalar == ToLeBytes \/ ToBeBytes \/ FromLeBytesExact \/ FromBeBytesExact \/ Invert

SpecScalar == InitScalar /\ [][NextScalar]_vars

----------------------------------------------------------------------------
(* Derivation machine: a caller chaining non-hardened hops from a root *)

\* Longest derivation path that is explored.
MaxHops == 3

RootPoints == {0, 1, 7, Order - 1}

ChainCodes == {Repeat(0, 32), Repeat(Radix - 1, 32), [i \in 1 .. 32 |-> i]}

\* Non-hardened indexes: below 2^31.
Indexes == {0, 1, 2147483647}

InitHd ==
    /\ root \in {[public_key |-> p, chain_code |-> c] : p \in RootPoints, c \in ChainCodes}
    /\ cur = root
    /\ parent = NoKey
    /\ hops = 0
    /\ index = 0
    /\ shifts = <<>>
    /\ derived = [shift |-> ScalarDefault, child_public_key |-> NoKey]
    /\ RedIdle
    /\ ScIdle

DerivePublicShift ==
    /\ hops < MaxHops
    /\ \E child_index \in Indexes :
        LET d == derive_public_shift(cur, child_index) IN
        /\ derived' = d
        /\ index' = child_index
        /\ parent' = cur
        /\ cur' = d.child_public_key
        /\ shifts' = Append(shifts, d.shift)
        /\ hops' = hops + 1
    /\ UNCHANGED <<root, redVars, scVars>>

NextHd == DerivePublicShift

SpecHd == InitHd /\ [][NextHd]_vars

----------------------------------------------------------------------------
(* Reference arithmetic for the properties: the integer a byte string      *)
(* encodes, reduced modulo the order, as a sum of digit * Radix^position.  *)

RECURSIVE BeSum(_, _, _)
BeSum(bytes, lo, hi) ==
    IF lo > hi THEN 0
    ELSE IF lo = hi THEN (bytes[lo] * PowMod(Radix, Len(bytes) - lo)) % Order
    ELSE BeSum(bytes, lo, (lo + hi) \div 2) + BeSum(bytes, (lo + hi) \div 2 + 1, hi)

RECURSIVE LeSum(_, _, _)
LeSum(bytes, lo, hi) ==
    IF lo > hi THEN 0
    ELSE IF lo = hi THEN (bytes[lo] * PowMod(Radix, lo - 1)) % Order
    ELSE LeSum(bytes, lo, (lo + hi) \div 2) + LeSum(bytes, (lo + hi) \div 2 + 1, hi)

BeIntegerModOrder(bytes) == BeSum(bytes, 1, Len(bytes)) % Order

LeIntegerModOrder(bytes) == LeSum(bytes, 1, Len(bytes)) % Order

\* Blocks of an input of 65 bytes or more, by significance: the partial block
\* is what the 64-byte chunking leaves over, full block 1 is the most
\* significant full block.
NumFull(bytes) == Len(bytes) \div 64

PartialLen(bytes) == Len(bytes) % 64

Called == pc \in {"be", "le"}

PartialValue ==
    IF pc = "be" THEN BeIntegerModOrder(SubSeq(input, 1, PartialLen(input)))
    ELSE LeIntegerModOrder(SubSeq(input, 64 * NumFull(input) + 1, Len(input)))

FullValue(k) ==
    IF pc = "be"
    THEN BeIntegerModOrder(SubSeq(input, PartialLen(input) + 64 * (k - 1) + 1,
                                  PartialLen(input) + 64 * k))
    ELSE LeIntegerModOrder(SubSeq(input, 64 * (NumFull(input) - k) + 1,
                                  64 * (NumFull(input) - k + 1)))

\* Sum over the full blocks k..n of FullValue(k) * (2^512)^(n - k + shiftBy).
RECURSIVE FullBlocksWeighted(_, _)
FullBlocksWeighted(k, shiftBy) ==
    IF k > NumFull(input) THEN 0
    ELSE ((FullValue(k) * PowMod(PowMod(Radix, 64), NumFull(input) - k + shiftBy)) % Order)
         + FullBlocksWeighted(k + 1, shiftBy)

HasPartial == Called /\ Len(input) >= 65 /\ PartialLen(input) # 0

----------------------------------------------------------------------------
(* Properties of the reduction (specification Spec) *)

\* C1: the big-endian entry point returns the unsigned integer its input
\* encodes in big-endian, reduced modulo the group order, for every length.
C1_BeIsIntegerModOrder ==
    pc = "be" => (~out.panic /\ out.val = BeIntegerModOrder(input))

C1_Witness ==
    /\ pc = "be" /\ Len(input) = 129 /\ input[1] # 0
    /\ ~out.panic /\ out.val # 0 /\ out.val = BeIntegerModOrder(input)

\* C3: both entry points return a scalar for every input: no expect fails and
\* no padding copy is out of bounds.
C3_Total == Called => ~out.panic

C3_Witness == pc = "le" /\ Len(input) = 65 /\ ~out.panic /\ Len(out.items) = 2

\* C6: the big-endian reduction of b is the little-endian reduction of
\* reverse(b), for every length.
C6_BeMirrorsLe ==
    pc = "be" => out.val = from_le_bytes_mod_order(Reverse(input)).val

C6_Witness ==
    /\ pc = "be" /\ Len(input) = 100 /\ input # Reverse(input)
    /\ out.val = from_le_bytes_mod_order(Reverse(input)).val
    /\ out.val # from_le_bytes_mod_order(input).val

\* C7 as stated: with a partial block, the full blocks are folded most
\* significant first and the partial block is the last value added, so it
\* has weight 1 and full block k has weight (2^512)^(n - k + 1).
C7_Original ==
    HasPartial =>
        /\ out.items[Len(out.items)] = PartialValue
        /\ out.val = (PartialValue + FullBlocksWeighted(1, 1)) % Order

\* C7 amended: with a partial block, the partial block is the first value of
\* the fold (the initial accumulator) and the most significant chunk: it has
\* weight (2^512)^n, and full block k has weight (2^512)^(n - k).
C7_PartialIsMostSignificant ==
    HasPartial =>
        /\ Len(out.items) = NumFull(input) + 1
        /\ out.items[1] = PartialValue
        /\ \A k \in 1 .. NumFull(input) : out.items[k + 1] = FullValue(k)
        /\ out.val = (((PartialValue * PowMod(PowMod(Radix, 64), NumFull(input))) % Order)
                      + FullBlocksWeighted(1, 0)) % Order

C7_Witness ==
    /\ pc = "be" /\ Len(input) = 129
    /\ out.items[1] = PartialValue /\ out.items[1] # out.items[3]
    /\ out.val # (PartialValue + FullBlocksWeighted(1, 1)) % Order

\* C8 as stated: an input of 65 bytes or more with n full blocks costs n
\* multiplications and n fold additions, with or without a partial block.
C8_Original ==
    (Called /\ Len(input) >= 65) =>
        (out.muls = NumFull(input) /\ out.adds = NumFull(input))

\* C8 amended: the fold costs one multiplication and one addition per item
\* after the first: n of each when there is a partial block, n - 1 of each
\* when the length is a multiple of 64.
C8_FoldCost ==
    (Called /\ Len(input) >= 65) =>
        LET steps == IF PartialLen(input) # 0 THEN NumFull(input) ELSE NumFull(input) - 1
        IN  out.muls = steps /\ out.adds = steps

C8_Witness ==
    /\ pc = "be" /\ Len(input) = 128 /\ out.muls = 1 /\ out.adds = 1
    /\ Len(out.items) = 2

\* C9 as stated: some byte string b (the current input or any other explored
\* one) and some k >= 1 exist for which the big-endian reduction of 64k zero
\* bytes followed by b differs from that of b.
C9_Original ==
    \E b \in Inputs \cup {input}, k \in 1 .. (MaxLen \div 64) :
        /\ Len(b) + 64 * k <= MaxLen
        /\ from_be_bytes_mod_order(Repeat(0, 64 * k) \o b).val
               # from_be_bytes_mod_order(b).val

\* C9 amended: leading all-zero 64-byte blocks do not change the big-endian
\* reduction: the reduction of 64k zero bytes followed by b is that of b.
C9_LeadingZeroBlocks ==
    pc = "be" =>
        \A k \in 1 .. NumFull(input) :
            (\A j \in 1 .. 64 * k : input[j] = 0) =>
                out.val = from_be_bytes_mod_order(SubSeq(input, 64 * k + 1, Len(input))).val

C9_Witness ==
    /\ pc = "be" /\ Len(input) = 129
    /\ \A j \in 1 .. 64 : input[j] = 0
    /\ input[65] # 0
    /\ out.val # 0
    /\ out.val = from_be_bytes_mod_order(SubSeq(input, 65, 129)).val

----------------------------------------------------------------------------
(* Properties of the scalar operations (specification SpecScalar) *)

\* C4: invert is empty exactly for the zero scalar, and for every other
\* scalar it holds a value whose product with the scalar is one.
C4_InvertIffNonZero ==
    spc = "inverted" =>
        /\ (~result.some) <=> (scalar.val = 0)
        /\ scalar.val # 0 => ScalarMul(result.val, scalar.val) = ScalarONE

C4_Witness ==
    /\ spc = "inverted" /\ scalar.val = 2
    /\ result.some /\ result.val = (Order + 1) \div 2

\* The array encodes, little-endian resp. big-endian, an integer >= the order.
LeGeOrder(bytes) ==
    \/ bytes = OrderBytesLe
    \/ \E i \in 1 .. 32 :
        /\ bytes[i] > OrderBytesLe[i]
        /\ \A j \in (i + 1) .. 32 : bytes[j] = OrderBytesLe[j]

BeGeOrder(bytes) ==
    \/ \A j \in 1 .. 32 : bytes[j] = OrderBytesLe[33 - j]
    \/ \E i \in 1 .. 32 :
        /\ bytes[i] > OrderBytesLe[33 - i]
        /\ \A j \in 1 .. (i - 1) : bytes[j] = OrderBytesLe[33 - j]

\* C5: exact decoding is empty exactly when the array encodes an integer >=
\* the order, otherwise it holds the scalar that encodes to the array; and
\* decoding the encoding of a scalar gives the scalar back, in both byte orders.
C5_ExactDecoding ==
    /\ spc = "le_decoded" =>
        /\ result.some <=> ~LeGeOrder(array)
        /\ result.some => to_le_bytes(result.val) = array
    /\ spc = "be_decoded" =>
        /\ result.some <=> ~BeGeOrder(array)
        /\ result.some => to_be_bytes(result.val) = array
    /\ spc \in {"le_roundtrip", "be_roundtrip"} => result = Some(scalar.val)

C5_Witness ==
    /\ spc = "be_roundtrip" /\ scalar.val = Order - 1
    /\ array[32] = 2 /\ array[31] = 16 /\ array[1] = 0
    /\ result = Some(Order - 1)

----------------------------------------------------------------------------
(* Properties of the derivation (specification SpecHd) *)

\* The 64-byte digest of the most recent hop, from the message layout
\* compressed point (32) || 0x00 || index, big-endian (4).
HopDigest ==
    HmacSha512(parent.chain_code,
               to_bytes_compressed(parent.public_key)
                   \o <<0>>
                   \o <<index \div 16777216, (index \div 65536) % 256,
                        (index \div 256) % 256, index % 256>>)

RECURSIVE SumShifts(_)
SumShifts(n) == IF n = 0 THEN 0 ELSE (SumShifts(n - 1) + shifts[n]) % Order

\* C2: a derivation step returns the big-endian reduction of the left half
\* of the digest as shift, parent point + generator * shift as child point,
\* and the right half of the digest as child chain code.
C2_DerivedShift ==
    hops > 0 =>
        /\ derived.shift = BeIntegerModOrder(SubSeq(HopDigest, 1, 32))
        /\ derived.child_public_key.public_key
               = (parent.public_key + derived.shift * Generator) % Order
        /\ derived.child_public_key.chain_code = SubSeq(HopDigest, 33, 64)

C2_Witness ==
    /\ hops = 1 /\ index = 2147483647 /\ parent = root
    /\ derived.shift # 0
    /\ derived.shift = BeIntegerModOrder(SubSeq(HopDigest, 1, 32))
    /\ derived.child_public_key.chain_code = SubSeq(HopDigest, 33, 64)

\* C10: along a chain of hops, the current point is the root point plus the
\* generator times the sum of all shifts returned so far, and the current
\* chain code is the right half of the most recent hop's digest.
C10_ChainOfHops ==
    /\ Len(shifts) = hops
    /\ cur.public_key = (root.public_key + SumShifts(hops) * Generator) % Order
    /\ hops > 0 => cur.chain_code = SubSeq(HopDigest, 33, 64)
    /\ hops = 0 => cur = root

C10_Witness ==
    /\ hops = 3 /\ SumShifts(3) # 0 /\ parent # root
    /\ cur.public_key = (root.public_key + SumShifts(3)) % Order
    /\ cur.chain_code = SubSeq(HopDigest, 33, 64)

====
